---- MODULE Spec2Model ----
(***************************************************************************)
(* Model of the face-matching engine (src/lib/faceRecognition.ts) and of   *)
(* the analysis run that drives it (src/app/page.tsx).                     *)
(*                                                                         *)
(* Numbers.  Distances, thresholds and scores are real numbers in the      *)
(* code.  The model measures them in units of 1/20: One (= 20) is 1.0, so  *)
(* the threshold 0.6 is 12.  Descriptors are integer vectors chosen so     *)
(* that every Euclidean distance between two of them is a whole number of  *)
(* units, which makes Sqrt exact on everything the model computes.         *)
(***************************************************************************)
EXTENDS Integers, Sequences, FiniteSets, TLC

VARIABLES
    \* ---- React state of Home (src/app/page.tsx) ----
    activeTab,          \* "matching" | "live"
    marathonPhotos,     \* sequence of MarathonPhoto
    referencePhoto,     \* a file name, or NoFile
    myDescriptor,       \* a descriptor, or Null
    matchResults,       \* sequence of MatchResult
    isModelsLoaded,
    isLoadingModels,
    isAnalyzing,
    analysisProgress,   \* [current, total]
    errorMessage,       \* a message name, or NoMessage
    loadPc,             \* initModels: "mount" | "loading" | "done"
    \* ---- uuidv4(): the next fresh photo id ----
    nextId,
    \* ---- the running handleAnalyze call: position and closure ----
    pc,                 \* "idle" | "awaitRef" | "awaitDetect"
    runRef,             \* referencePhoto captured by the closure
    runPhotos,          \* marathonPhotos captured by the closure
    descriptor,         \* const descriptor
    updatedPhotos,      \* const updatedPhotos
    \* ---- history of the run, for stating properties ----
    refDetect,          \* what detection did for the reference image
    failedIdx,          \* indices of the photos whose extraction rejected
    outcome,            \* how the last run ended
    removedIds,         \* ids the user has removed (handleMarathonPhotoRemove)
    \* ---- one call of a pure function of faceRecognition.ts ----
    call,
    \* ---- LiveFaceTracker (src/unnamed/part_000): state and refs ----
    isStreaming,
    streamRef,          \* "stream" while a MediaStream is held, or "null"
    animationFrameRef,  \* the last requestAnimationFrame id stored, or 0 (null)
    detectionInfo,      \* "info" | "null"
    error,              \* "webcamFailed" | "null"
    \* ---- LiveFaceTracker: what the browser has pending for it ----
    startPc,            \* startWebcam: "idle" | "awaitStream"
    listeners,          \* 'loadeddata' listeners registered on the video
    loadPending,        \* the video will fire 'loadeddata' for its stream
    detecting,          \* detectFaces calls suspended at detectAllFaces
    timers,             \* 100 ms timeouts pending
    frames,             \* ids of the animation frame requests pending
    nextFrame           \* the id the next requestAnimationFrame returns

uiVars == <<activeTab, marathonPhotos, referencePhoto, myDescriptor,
            matchResults, isModelsLoaded, isLoadingModels, isAnalyzing,
            analysisProgress, errorMessage, loadPc, nextId>>
runVars == <<pc, runRef, runPhotos, descriptor, updatedPhotos,
             refDetect, failedIdx, outcome, removedIds>>
trackerVars == <<isStreaming, streamRef, animationFrameRef, detectionInfo,
                 error, startPc, listeners, loadPending, detecting, timers,
                 frames, nextFrame>>
vars == <<uiVars, runVars, call, trackerVars>>

-----------------------------------------------------------------------------
(* Units and null values *)

\* 1.0, in model units ("1 - minDistance").
One == 20

\* threshold: number = 0.6, and the 0.6 handleAnalyze passes.
DefaultThreshold == (6 * One) \div 10

\* null, for a Float32Array | null
Null == <<>>
\* null, for the reference photo
NoFile == "none"
\* null, for errorMessage
NoMessage == "null"

Max(a, b) == IF a >= b THEN a ELSE b

\* (faulty variant of MinOf: only the first face of a photo is looked at)
MinOfFirstOnly(s) == s[1]

\* Math.min(...distances): the least element of a non-empty sequence
MinOf(s) == CHOOSE m \in {s[i] : i \in DOMAIN s} : \A i \in DOMAIN s : m <= s[i]

-----------------------------------------------------------------------------
(* calculateDistance: faceapi.euclideanDistance *)

RECURSIVE SumSqDiff(_, _, _)
SumSqDiff(a, b, n) ==
    IF n = 0 THEN 0
    ELSE SumSqDiff(a, b, n - 1) + (a[n] - b[n]) * (a[n] - b[n])

\* Math.sqrt, exact on the squared distances of the modelled descriptors
Sqrt(n) == CHOOSE r \in 0..n : r * r = n

RECURSIVE SumDiff(_, _, _)
SumDiff(a, b, n) ==
    IF n = 0 THEN 0
    ELSE SumDiff(a, b, n - 1) + (a[n] - b[n])

\* (faulty variant of calculateDistance: the differences are summed as they
\* are, neither squared nor rooted)
calculateDistanceUnsquared(desc1, desc2) == SumDiff(desc1, desc2, Len(desc1))

\* (faulty variant of calculateDistance: only the first component is compared)
calculateDistanceFirstOnly(desc1, desc2) == Sqrt(SumSqDiff(desc1, desc2, 1))

calculateDistance(desc1, desc2) == Sqrt(SumSqDiff(desc1, desc2, Len(desc1)))

-----------------------------------------------------------------------------
(* findMatchingPhotos *)

\* (faulty variant of SortInsert: equal scores are reordered, as by an unstable sort)
SortInsertUnstable(sorted, x) ==
    LET p == Cardinality({i \in DOMAIN sorted : sorted[i].score > x.score})
    IN  SubSeq(sorted, 1, p) \o <<x>> \o SubSeq(sorted, p + 1, Len(sorted))

\* results.sort((a, b) => b.score - a.score): Array.prototype.sort is stable,
\* so an element is placed after every element the comparator does not put
\* behind it (b.score - a.score <= 0, i.e. a.score >= b.score).
SortInsert(sorted, x) ==
    LET p == Cardinality({i \in DOMAIN sorted : sorted[i].score >= x.score})
    IN  SubSeq(sorted, 1, p) \o <<x>> \o SubSeq(sorted, p + 1, Len(sorted))

RECURSIVE SortByScore(_)
SortByScore(results) ==
    IF results = <<>> THEN <<>>
    ELSE SortInsert(SortByScore(SubSeq(results, 1, Len(results) - 1)),
                    results[Len(results)])

\* const distances = photo.faces.map(face => calculateDistance(...))
FaceDistances(myDesc, photo) ==
    [i \in DOMAIN photo.faces |-> calculateDistance(myDesc, photo.faces[i].descriptor)]

\* (faulty variant of MatchStep: a photo without faces is a zero-score match)
MatchStepNoSkip(results, myDesc, photo, threshold) ==
    IF Len(photo.faces) = 0
    THEN Append(results, [photo |-> photo, distance |-> One, score |-> 0])
    ELSE LET minDistance == MinOf(FaceDistances(myDesc, photo))
         IN  IF minDistance <= threshold
             THEN Append(results, [photo    |-> photo,
                                   distance |-> minDistance,
                                   score    |-> Max(0, One - minDistance)])
             ELSE results

\* (faulty variant of MatchStep: the score is not clamped at 0)
MatchStepNoClamp(results, myDesc, photo, threshold) ==
    IF Len(photo.faces) = 0 THEN results
    ELSE LET minDistance == MinOf(FaceDistances(myDesc, photo))
         IN  IF minDistance <= threshold
             THEN Append(results, [photo    |-> photo,
                                   distance |-> minDistance,
                                   score    |-> One - minDistance])
             ELSE results

\* (faulty variant of MatchStep: the comparison is the wrong way round)
MatchStepReversed(results, myDesc, photo, threshold) ==
    IF Len(photo.faces) = 0 THEN results
    ELSE LET minDistance == MinOf(FaceDistances(myDesc, photo))
         IN  IF threshold <= minDistance
             THEN Append(results, [photo    |-> photo,
                                   distance |-> minDistance,
                                   score    |-> Max(0, One - minDistance)])
             ELSE results

\* (faulty variant of MatchStep: a distance equal to the threshold is rejected)
MatchStepExclusive(results, myDesc, photo, threshold) ==
    IF Len(photo.faces) = 0 THEN results
    ELSE LET minDistance == MinOf(FaceDistances(myDesc, photo))
         IN  IF minDistance < threshold
             THEN Append(results, [photo    |-> photo,
                                   distance |-> minDistance,
                                   score    |-> Max(0, One - minDistance)])
             ELSE results

\* The body of the for loop, for one photo: the results after it.
MatchStep(results, myDesc, photo, threshold) ==
    IF Len(photo.faces) = 0 THEN results
    ELSE LET minDistance == MinOf(FaceDistances(myDesc, photo))
         IN  IF minDistance <= threshold
             THEN Append(results, [photo    |-> photo,
                                   distance |-> minDistance,
                                   score    |-> Max(0, One - minDistance)])
             ELSE results

\* for (const photo of photos) { ... }: the results after the first n photos
RECURSIVE MatchLoop(_, _, _, _)
MatchLoop(myDesc, photos, threshold, n) ==
    IF n = 0 THEN <<>>
    ELSE MatchStep(MatchLoop(myDesc, photos, threshold, n - 1),
                   myDesc, photos[n], threshold)

findMatchingPhotos(myDesc, photos, threshold) ==
    SortByScore(MatchLoop(myDesc, photos, threshold, Len(photos)))

-----------------------------------------------------------------------------
(* extractReferenceFace, after detectFacesInImage has returned faces *)

Area(face) == face.box.width * face.box.height

\* (faulty variant of AreaInsert: among equal areas the later face comes first)
AreaInsertUnstable(sorted, x) ==
    LET p == Cardinality({i \in DOMAIN sorted : Area(sorted[i]) > Area(x)})
    IN  SubSeq(sorted, 1, p) \o <<x>> \o SubSeq(sorted, p + 1, Len(sorted))

\* faces.sort((a, b) => areaB - areaA): stable, descending by area
AreaInsert(sorted, x) ==
    LET p == Cardinality({i \in DOMAIN sorted : Area(sorted[i]) >= Area(x)})
    IN  SubSeq(sorted, 1, p) \o <<x>> \o SubSeq(sorted, p + 1, Len(sorted))

RECURSIVE SortByArea(_)
SortByArea(faces) ==
    IF faces = <<>> THEN <<>>
    ELSE AreaInsert(SortByArea(SubSeq(faces, 1, Len(faces) - 1)),
                    faces[Len(faces)])

extractReferenceFace(faces) ==
    IF Len(faces) = 0 THEN Null
    ELSE LET sorted == IF Len(faces) > 1 THEN SortByArea(faces) ELSE faces
         IN  sorted[1].descriptor

\* The array `faces` as extractReferenceFace leaves it: faces.sort(...)
\* sorts the array in place; with no face the function returns before it.
facesAfterExtractReferenceFace(faces) ==
    IF Len(faces) = 0 THEN faces ELSE SortByArea(faces)

\* The array `photos` as findMatchingPhotos leaves it: the loop only reads it
\* (photo.faces.map builds a new array, results is a new array, and it is
\* results that is sorted).
photosAfterFindMatchingPhotos(photos) == photos

-----------------------------------------------------------------------------
(* ResultGallery: the face shown with a result *)

\* const matchedFace = result.photo.faces.length > 0 ? result.photo.faces[0] : null
matchedFace(result) ==
    IF Len(result.photo.faces) > 0 THEN result.photo.faces[1] ELSE "null"

\* results.map((result) => ...): the matched face of every card
ResultGallery(results) == [k \in DOMAIN results |-> matchedFace(results[k])]

-----------------------------------------------------------------------------
(* The dominant expression *)

\* The keys of a face's expressions object, in the order detectFacesInImage
\* writes them, which is the order Object.entries lists them in.
ExpressionKeys ==
    <<"happy", "sad", "angry", "surprised", "disgusted", "fearful", "neutral">>

\* Object.entries(expressions): the [key, probability] pairs in key order
ObjectEntries(expressions) ==
    [i \in DOMAIN ExpressionKeys |->
        <<ExpressionKeys[i], expressions[ExpressionKeys[i]]>>]

\* (faulty variant of EntryInsert: equal probabilities are reordered)
EntryInsertUnstable(sorted, x) ==
    LET p == Cardinality({i \in DOMAIN sorted : sorted[i][2] > x[2]})
    IN  SubSeq(sorted, 1, p) \o <<x>> \o SubSeq(sorted, p + 1, Len(sorted))

\* entries.sort((a, b) => b[1] - a[1]): stable, descending by probability
EntryInsert(sorted, x) ==
    LET p == Cardinality({i \in DOMAIN sorted : sorted[i][2] >= x[2]})
    IN  SubSeq(sorted, 1, p) \o <<x>> \o SubSeq(sorted, p + 1, Len(sorted))

RECURSIVE SortEntries(_)
SortEntries(entries) ==
    IF entries = <<>> THEN <<>>
    ELSE EntryInsert(SortEntries(SubSeq(entries, 1, Len(entries) - 1)),
                     entries[Len(entries)])

getDominantExpression(expressions) ==
    LET entries == ObjectEntries(expressions)
        sorted == SortEntries(entries)
    IN  sorted[1][1]

\* LiveFaceTracker.detectFaces:
\* Object.entries(expressions).reduce((a, b) => a[1] > b[1] ? a : b),
\* the accumulator after the first n entries (the first entry is the initial
\* accumulator)
RECURSIVE ReduceDominant(_, _)
ReduceDominant(entries, n) ==
    IF n = 1 THEN entries[1]
    ELSE LET a == ReduceDominant(entries, n - 1)
             b == entries[n]
         IN  IF a[2] > b[2] THEN a ELSE b

\* dominantExpr[0], the expression the tracker draws
dominantExpr(expressions) ==
    ReduceDominant(ObjectEntries(expressions), Len(ExpressionKeys))[1]

-----------------------------------------------------------------------------
(* cropFaceFromImage: the crop region.  Lengths are in pixels; padding is a *)
(* fraction, counted in units of 1/PadDen, and the modelled boxes have      *)
(* widths and heights that are multiples of PadDen, so that the products    *)
(* box.width * padding and box.height * padding are whole.                  *)

\* padding is measured in tenths: 2 is the default 0.2
PadDen == 10
\* padding: number = 0.2
DefaultPadding == (2 * PadDen) \div 10

Min(a, b) == IF a <= b THEN a ELSE b

\* (faulty variant of CropRegion: the left and top edges are not clamped to 0)
CropRegionNoOriginClamp(img, box, padding) ==
    LET paddingX == (box.width * padding) \div PadDen
        paddingY == (box.height * padding) \div PadDen
        cropX == box.x - paddingX
        cropY == box.y - paddingY
    IN  [cropX      |-> cropX,
         cropY      |-> cropY,
         cropWidth  |-> Min(img.width - cropX, box.width + paddingX * 2),
         cropHeight |-> Min(img.height - cropY, box.height + paddingY * 2)]

\* const paddingX ... const cropHeight: the region drawn onto the canvas
CropRegion(img, box, padding) ==
    LET paddingX == (box.width * padding) \div PadDen
        paddingY == (box.height * padding) \div PadDen
        cropX == Max(0, box.x - paddingX)
        cropY == Max(0, box.y - paddingY)
        cropWidth == Min(img.width - cropX, box.width + paddingX * 2)
        cropHeight == Min(img.height - cropY, box.height + paddingY * 2)
    IN  [cropX |-> cropX, cropY |-> cropY,
         cropWidth |-> cropWidth, cropHeight |-> cropHeight]

\* (faulty variant of cropFaceFromImage: a padding of 0 falls back to the
\* default, as "padding || 0.2" would)
cropFaceFromImageFalsyPadding(img, box, padding) ==
    IF img.loads
    THEN [state |-> "resolved",
          region |-> CropRegion(img, box,
                                IF padding = 0 THEN DefaultPadding ELSE padding)]
    ELSE [state |-> "rejected", region |-> <<>>]

\* The promise of cropFaceFromImage: rejected when the image does not load
\* (img.onerror, or no 2d context), resolved with the region's pixels
\* otherwise.
cropFaceFromImage(img, box, padding) ==
    IF img.loads
    THEN [state |-> "resolved", region |-> CropRegion(img, box, padding)]
    ELSE [state |-> "rejected", region |-> <<>>]

-----------------------------------------------------------------------------
(* The boxes of detectFacesInImage and their use by downloadCroppedFaces.   *)
(* An image is [width, height, loads]; a scene is the sequence of the       *)
(* regions [x, y, width, height] that the faces occupy in that image, in    *)
(* its own pixels.  The modelled sizes make every quotient whole.           *)

\* resizeImage: the size of the canvas the image is drawn onto
resizeImage(img, maxSize) ==
    IF img.width > img.height /\ img.width > maxSize
    THEN [width |-> maxSize, height |-> (img.height * maxSize) \div img.width]
    ELSE IF img.height > maxSize
    THEN [width |-> (img.width * maxSize) \div img.height, height |-> maxSize]
    ELSE [width |-> img.width, height |-> img.height]

\* ctx.drawImage(img, 0, 0, width, height): where a region of the image lies
\* on the canvas
drawImage(img, canvas, region) ==
    [x      |-> (region.x * canvas.width) \div img.width,
     y      |-> (region.y * canvas.height) \div img.height,
     width  |-> (region.width * canvas.width) \div img.width,
     height |-> (region.height * canvas.height) \div img.height]

\* detectFacesInImage, for an image that loads: detectAllFaces is given the
\* resized canvas and reports each face where it lies on that canvas; the
\* box is copied into the DetectedFace as it is.
detectFacesInImage(img, scene) ==
    LET resizedCanvas == resizeImage(img, 800)
    IN  [k \in DOMAIN scene |-> [box |-> drawImage(img, resizedCanvas, scene[k])]]

\* downloadCroppedFaces(photo) without faceIndex: one cropFaceFromImage call
\* per face, on the image behind photo.imageUrl (the uploaded file itself),
\* with the default padding.  The first rejection ends the loop (the catch).
downloadCroppedFaces(photo) ==
    IF Len(photo.faces) = 0 THEN [state |-> "nothingToCrop", crops |-> <<>>]
    ELSE IF ~photo.img.loads THEN [state |-> "cropFailed", crops |-> <<>>]
    ELSE [state |-> "downloaded",
          crops |-> [k \in DOMAIN photo.faces |->
                        cropFaceFromImage(photo.img, photo.faces[k].box,
                                          DefaultPadding).region]]

-----------------------------------------------------------------------------
(* Bounds and inputs *)

\* Photos per findMatchingPhotos call, faces per photo, faces per reference.
MaxPhotos == 3
MaxFaces == 2
MaxRefFaces == 3
\* Faces over all the photos of one findMatchingPhotos call.
MaxTotalFaces == 3

SeqsUpTo(S, n) == UNION {[1..k -> S] : k \in 0..n}

\* Descriptors.  All pairwise distances are whole: to the three face
\* descriptors they are 5, 12, 16 from <<0,0>>, 13, 0, 20 from <<0,12>> and
\* 21, 20, 0 from <<-16,0>>.
FaceDescriptors == {<<5, 0>>, <<0, 12>>, <<-16, 0>>}
RefDescriptors == {<<0, 0>>, <<0, 12>>, <<-16, 0>>}

\* 0, 0.6 and 1.2
ThresholdInputs == {0, DefaultThreshold, One + 4}

UnitBox == [x |-> 0, y |-> 0, width |-> 1, height |-> 1]
Boxes == {[x |-> 0, y |-> 0, width |-> 2, height |-> 3],
          [x |-> 4, y |-> 0, width |-> 3, height |-> 2],
          [x |-> 0, y |-> 4, width |-> 1, height |-> 4]}

\* DetectedFace (descriptor and box; the optional attributes play no part)
FaceInputs == {[descriptor |-> d, box |-> UnitBox] : d \in FaceDescriptors}
RefFaceInputs ==
    {[descriptor |-> d, box |-> b] : d \in {<<0, 0>>, <<0, 12>>}, b \in Boxes}

\* MarathonPhoto: id stands for the photo's id, file and imageUrl
PhotoOf(i, faces) == [id |-> i, faces |-> faces]
\* The sequences of k face lists (one per photo) with at most `budget` faces
\* in all
RECURSIVE FaceListSeqs(_, _)
FaceListSeqs(k, budget) ==
    IF k = 0 THEN {<<>>}
    ELSE UNION {{<<fl>> \o rest : rest \in FaceListSeqs(k - 1, budget - Len(fl))} :
                    fl \in {f \in SeqsUpTo(FaceInputs, MaxFaces) : Len(f) <= budget}}

PhotoListInputs ==
    {[i \in DOMAIN fl |-> PhotoOf(i, fl[i])] :
        fl \in UNION {FaceListSeqs(k, MaxTotalFaces) : k \in 0..MaxPhotos}}

NoCall == [op |-> "none", args |-> <<>>, done |-> FALSE, result |-> <<>>]

FindCalls ==
    {[op |-> "findMatchingPhotos",
      args |-> [myDescriptor |-> d, photos |-> ps, threshold |-> t],
      done |-> FALSE, result |-> <<>>] :
        d \in RefDescriptors, ps \in PhotoListInputs, t \in ThresholdInputs}

ExtractCalls ==
    {[op |-> "extractReferenceFace", args |-> [faces |-> fs],
      done |-> FALSE, result |-> <<>>] :
        fs \in SeqsUpTo(RefFaceInputs, MaxRefFaces)}

\* Images for cropFaceFromImage: 30 x 20 pixels, loading or failing to load
ImageInputs == {[width |-> 30, height |-> 20, loads |-> l] : l \in BOOLEAN}

\* Boxes for cropFaceFromImage (x, y >= 0 and width, height > 0, as detection
\* reports them, starting inside the image): at the origin, one pixel in, and
\* half-way; some lie inside the image, some touch its right or bottom edge,
\* some reach past it.
CropBoxes ==
    {[x |-> x, y |-> y, width |-> w, height |-> h] :
        x \in {0, 1, 15}, y \in {0, 1, 15}, w \in {10, 20}, h \in {10, 20}}

\* padding 0, 0.2 (the default), 0.5 and 1.0
PaddingInputs == {0, DefaultPadding, PadDen \div 2, PadDen}

\* Probabilities are counted in units of 1 / ProbUnits; the seven of a face
\* add up to 1.
ProbUnits == 5

RECURSIVE SumProbs(_, _)
SumProbs(expressions, n) ==
    IF n = 0 THEN 0
    ELSE SumProbs(expressions, n - 1) + expressions[ExpressionKeys[n]]

\* FaceExpressions: every distribution over the seven keys
ExpressionInputs ==
    {e \in [{ExpressionKeys[i] : i \in DOMAIN ExpressionKeys} -> 0..ProbUnits] :
        SumProbs(e, Len(ExpressionKeys)) = ProbUnits}

ExpressionCalls ==
    {[op |-> o, args |-> [expressions |-> e], done |-> FALSE, result |-> <<>>] :
        o \in {"getDominantExpression", "dominantExpr"}, e \in ExpressionInputs}

\* The results ResultGallery is given: what findMatchingPhotos returned to
\* handleAnalyze (threshold 0.6).  myDescriptor, the reference of that run, is
\* kept with the call for stating properties.
GalleryCalls ==
    {[op |-> "ResultGallery",
      args |-> [results |-> findMatchingPhotos(d, ps, DefaultThreshold),
                myDescriptor |-> d],
      done |-> FALSE, result |-> <<>>] :
        d \in RefDescriptors, ps \in PhotoListInputs}

\* Pairs of descriptors for calculateDistance
DistanceCalls ==
    {[op |-> "calculateDistance", args |-> [desc1 |-> a, desc2 |-> b],
      done |-> FALSE, result |-> <<>>] :
        a \in FaceDescriptors \cup RefDescriptors,
        b \in FaceDescriptors \cup RefDescriptors}

\* Faces in the scene of one uploaded photo
MaxSceneFaces == 2

\* Uploaded images: at the detection size, smaller, and larger (landscape and
\* portrait, both resized by 1/2)
PhotoSizes == {<<400, 400>>, <<800, 600>>, <<1600, 1200>>, <<1200, 1600>>}
PhotoImages ==
    {[width |-> wh[1], height |-> wh[2], loads |-> l] :
        wh \in PhotoSizes, l \in BOOLEAN}

\* Face regions, all inside the smallest image
FaceRegions ==
    {[x |-> x, y |-> y, width |-> w, height |-> w] :
        x \in {0, 200}, y \in {0, 200}, w \in {100, 200}}

DownloadCalls ==
    {[op |-> "downloadCroppedFaces",
      args |-> [img |-> img, scene |-> sc],
      done |-> FALSE, result |-> <<>>] :
        img \in PhotoImages, sc \in SeqsUpTo(FaceRegions, MaxSceneFaces)}

CropCalls ==
    {[op |-> "cropFaceFromImage",
      args |-> [img |-> img, box |-> b, padding |-> p],
      done |-> FALSE, result |-> <<>>] :
        img \in ImageInputs, b \in CropBoxes, p \in PaddingInputs}

-----------------------------------------------------------------------------
(* State after construction (the useState initial values) *)

UiInit ==
    /\ activeTab = "matching"
    /\ marathonPhotos = <<>>
    /\ referencePhoto = NoFile
    /\ myDescriptor = Null
    /\ matchResults = <<>>
    /\ isModelsLoaded = FALSE
    /\ isLoadingModels = FALSE
    /\ isAnalyzing = FALSE
    /\ analysisProgress = [current |-> 0, total |-> 0]
    /\ errorMessage = NoMessage
    /\ loadPc = "mount"
    /\ nextId = 1

NotDetected == [state |-> "none", faces |-> <<>>]

RunInit ==
    /\ pc = "idle"
    /\ runRef = NoFile
    /\ runPhotos = <<>>
    /\ descriptor = Null
    /\ updatedPhotos = <<>>
    /\ refDetect = NotDetected
    /\ failedIdx = {}
    /\ outcome = "none"
    /\ removedIds = {}

\* LiveFaceTracker's useState and useRef initial values; nothing is pending
TrackerInit ==
    /\ isStreaming = FALSE
    /\ streamRef = "null"
    /\ animationFrameRef = 0
    /\ detectionInfo = "null"
    /\ error = "null"
    /\ startPc = "idle"
    /\ listeners = 0
    /\ loadPending = FALSE
    /\ detecting = 0
    /\ timers = 0
    /\ frames = {}
    /\ nextFrame = 1

-----------------------------------------------------------------------------
(* The pure functions, applied to inputs drawn by FnInit *)

\* A call about to be made: `after` holds the argument objects as they are
\* in memory, which a call may overwrite; args keeps them as they were passed.
Started(c) ==
    [op |-> c.op, args |-> c.args, after |-> c.args,
     done |-> c.done, result |-> c.result]

FnInit ==
    /\ UiInit
    /\ RunInit
    /\ TrackerInit
    /\ \E c \in FindCalls \cup ExtractCalls \cup CropCalls \cup DistanceCalls
                    \cup ExpressionCalls \cup GalleryCalls \cup DownloadCalls :
            call = Started(c)

CallFindMatchingPhotos ==
    /\ call.op = "findMatchingPhotos"
    /\ ~call.done
    /\ call' = [call EXCEPT !.done = TRUE,
                            !.result = findMatchingPhotos(call.args.myDescriptor,
                                                          call.args.photos,
                                                          call.args.threshold),
                            !.after.photos =
                                photosAfterFindMatchingPhotos(call.args.photos)]
    /\ UNCHANGED <<uiVars, runVars, trackerVars>>

CallExtractReferenceFace ==
    /\ call.op = "extractReferenceFace"
    /\ ~call.done
    /\ call' = [call EXCEPT !.done = TRUE,
                            !.result = extractReferenceFace(call.args.faces),
                            !.after.faces =
                                facesAfterExtractReferenceFace(call.args.faces)]
    /\ UNCHANGED <<uiVars, runVars, trackerVars>>

CallCropFaceFromImage ==
    /\ call.op = "cropFaceFromImage"
    /\ ~call.done
    /\ call' = [call EXCEPT !.done = TRUE,
                            !.result = cropFaceFromImage(call.args.img,
                                                         call.args.box,
                                                         call.args.padding)]
    /\ UNCHANGED <<uiVars, runVars, trackerVars>>

CallCalculateDistance ==
    /\ call.op = "calculateDistance"
    /\ ~call.done
    /\ call' = [call EXCEPT !.done = TRUE,
                            !.result = calculateDistance(call.args.desc1,
                                                         call.args.desc2)]
    /\ UNCHANGED <<uiVars, runVars, trackerVars>>

CallGetDominantExpression ==
    /\ call.op = "getDominantExpression"
    /\ ~call.done
    /\ call' = [call EXCEPT !.done = TRUE,
                            !.result = getDominantExpression(call.args.expressions)]
    /\ UNCHANGED <<uiVars, runVars, trackerVars>>

\* The tracker's frame callback, from the detection to the dominant expression
CallDominantExpr ==
    /\ call.op = "dominantExpr"
    /\ ~call.done
    /\ call' = [call EXCEPT !.done = TRUE,
                            !.result = dominantExpr(call.args.expressions)]
    /\ UNCHANGED <<uiVars, runVars, trackerVars>>

CallResultGallery ==
    /\ call.op = "ResultGallery"
    /\ ~call.done
    /\ call' = [call EXCEPT !.done = TRUE,
                            !.result = ResultGallery(call.args.results)]
    /\ UNCHANGED <<uiVars, runVars, trackerVars>>

\* A photo is uploaded, analysed (detectFacesInImage fills photo.faces) and
\* its faces are downloaded from the gallery.
CallDownloadCroppedFaces ==
    /\ call.op = "downloadCroppedFaces"
    /\ ~call.done
    /\ LET faces == detectFacesInImage(call.args.img, call.args.scene)
       IN  call' = [call EXCEPT
                        !.done = TRUE,
                        !.result = [faces |-> faces,
                                    download |-> downloadCroppedFaces(
                                        [img |-> call.args.img, faces |-> faces])]]
    /\ UNCHANGED <<uiVars, runVars, trackerVars>>

FnNext ==
    \/ CallDownloadCroppedFaces
    \/ CallResultGallery
    \/ CallCalculateDistance
    \/ CallGetDominantExpression
    \/ CallDominantExpr
    \/ CallFindMatchingPhotos
    \/ CallExtractReferenceFace
    \/ CallCropFaceFromImage

FnSpec == FnInit /\ [][FnNext]_vars

-----------------------------------------------------------------------------
(* The page: inputs of the handlers *)

\* PhotoUploader's maxPhotos = 50, scaled down to the model's size.
maxPhotos == 2
\* Photos uploaded over a whole behaviour (each gets a fresh id): one more
\* than the limit, so that the collection can be full with a photo to spare.
MaxUploads == maxPhotos + 1
\* Files selected in one upload: up to one more than the limit.
BatchSizes == 0..(maxPhotos + 1)

RefFiles == {"refA", "refB"}

FaceAt(d, w, h) == [descriptor |-> d, box |-> [x |-> 0, y |-> 0, width |-> w, height |-> h]]

\* What detectFacesInImage may resolve to for a reference image: no face, one
\* face, or a small face detected before a large one.
RefDetectOutcomes ==
    {<<>>,
     <<FaceAt(<<0, 12>>, 2, 2)>>,
     <<FaceAt(<<0, 12>>, 1, 1), FaceAt(<<0, 0>>, 2, 2)>>}

\* What detectFacesInImage may resolve to for an uploaded photo.  From <<0,0>>
\* the distances are 5 / 16 and 12 (minimum 12, the threshold) ; from <<0,12>>
\* they are 13 / 20 and 0.
PhotoDetectOutcomes ==
    {<<>>,
     <<FaceAt(<<5, 0>>, 2, 2)>>,
     <<FaceAt(<<-16, 0>>, 2, 2), FaceAt(<<0, 12>>, 1, 1)>>}

\* The messages handleAnalyze and initModels set
MsgModelLoad == "modelLoadFailed"
MsgNeedReference == "needReferencePhoto"
MsgNeedPhotos == "needMarathonPhotos"
MsgNoReferenceFace == "noFaceInReference"
MsgNoFacesInPhotos == "noFacesInPhotos"
MsgNoMatch == "noMatch"
MsgAnalysisFailed == "analysisFailed"

NoProgress == [current |-> 0, total |-> 0]

PhotoIds(photos) == {photos[i].id : i \in DOMAIN photos}

RECURSIVE SumFaces(_)
\* updatedPhotos.reduce((sum, photo) => sum + photo.faces.length, 0)
SumFaces(photos) ==
    IF photos = <<>> THEN 0
    ELSE Len(photos[1].faces) + SumFaces(Tail(photos))

\* prev.filter((p) => p.id !== id)
RECURSIVE WithoutId(_, _)
WithoutId(photos, id) ==
    IF photos = <<>> THEN <<>>
    ELSE IF photos[1].id = id THEN WithoutId(Tail(photos), id)
         ELSE <<photos[1]>> \o WithoutId(Tail(photos), id)

-----------------------------------------------------------------------------
(* initModels (useEffect on mount) *)

InitModelsStart ==
    /\ loadPc = "mount"
    /\ loadPc' = "loading"
    /\ isLoadingModels' = TRUE
    /\ UNCHANGED <<activeTab, marathonPhotos, referencePhoto, myDescriptor,
                   matchResults, isModelsLoaded, isAnalyzing, analysisProgress,
                   errorMessage, nextId, runVars, call, trackerVars>>

InitModelsLoaded ==
    /\ loadPc = "loading"
    /\ loadPc' = "done"
    /\ isModelsLoaded' = TRUE
    /\ isLoadingModels' = FALSE
    /\ UNCHANGED <<activeTab, marathonPhotos, referencePhoto, myDescriptor,
                   matchResults, isAnalyzing, analysisProgress,
                   errorMessage, nextId, runVars, call, trackerVars>>

InitModelsFailed ==
    /\ loadPc = "loading"
    /\ loadPc' = "done"
    /\ errorMessage' = MsgModelLoad
    /\ isLoadingModels' = FALSE
    /\ UNCHANGED <<activeTab, marathonPhotos, referencePhoto, myDescriptor,
                   matchResults, isModelsLoaded, isAnalyzing, analysisProgress,
                   nextId, runVars, call, trackerVars>>

-----------------------------------------------------------------------------
(* Upload, removal, reference photo, tabs *)

\* PhotoUploader.handleFileChange refusing a selection that exceeds maxPhotos
PhotosAddRefused(n) ==
    /\ activeTab = "matching"
    /\ Len(marathonPhotos) + n > maxPhotos
    /\ UNCHANGED vars

\* (faulty variant of handleMarathonPhotosAdd: the selection is added without
\* the comparison with maxPhotos)
handleMarathonPhotosAddNoLimit(n) ==
    /\ activeTab = "matching"
    /\ nextId + n - 1 <= MaxUploads
    /\ marathonPhotos' =
        marathonPhotos \o [k \in 1..n |-> [id |-> nextId + k - 1, faces |-> <<>>]]
    /\ nextId' = nextId + n
    /\ matchResults' = <<>>
    /\ errorMessage' = NoMessage
    /\ UNCHANGED <<activeTab, referencePhoto, myDescriptor, isModelsLoaded,
                   isLoadingModels, isAnalyzing, analysisProgress, loadPc,
                   runVars, call, trackerVars>>

\* PhotoUploader.handleFileChange -> handleMarathonPhotosAdd(files), n files
handleMarathonPhotosAdd(n) ==
    /\ activeTab = "matching"
    /\ ~(Len(marathonPhotos) + n > maxPhotos)
    /\ nextId + n - 1 <= MaxUploads
    /\ marathonPhotos' =
        marathonPhotos \o [k \in 1..n |-> [id |-> nextId + k - 1, faces |-> <<>>]]
    /\ nextId' = nextId + n
    /\ matchResults' = <<>>
    /\ errorMessage' = NoMessage
    /\ UNCHANGED <<activeTab, referencePhoto, myDescriptor, isModelsLoaded,
                   isLoadingModels, isAnalyzing, analysisProgress, loadPc,
                   runVars, call, trackerVars>>

handleMarathonPhotoRemove(id) ==
    /\ activeTab = "matching"
    /\ id \in PhotoIds(marathonPhotos)
    /\ marathonPhotos' = WithoutId(marathonPhotos, id)
    /\ matchResults' = <<>>
    /\ errorMessage' = NoMessage
    /\ removedIds' = removedIds \cup {id}
    /\ UNCHANGED <<activeTab, referencePhoto, myDescriptor, isModelsLoaded,
                   isLoadingModels, isAnalyzing, analysisProgress, loadPc,
                   nextId, pc, runRef, runPhotos, descriptor, updatedPhotos,
                   refDetect, failedIdx, outcome, call, trackerVars>>

\* FacePreview: a file selected, or the shown reference photo removed (NoFile)
handleReferencePhotoChange(file) ==
    /\ activeTab = "matching"
    /\ file = NoFile => referencePhoto # NoFile
    /\ referencePhoto' = file
    /\ myDescriptor' = Null
    /\ matchResults' = <<>>
    /\ errorMessage' = NoMessage
    /\ UNCHANGED <<activeTab, marathonPhotos, isModelsLoaded, isLoadingModels,
                   isAnalyzing, analysisProgress, loadPc, nextId, runVars, call, trackerVars>>

\* LiveFaceTracker's capture button
handleCaptureFace(file) ==
    /\ activeTab = "live"
    /\ referencePhoto' = file
    /\ myDescriptor' = Null
    /\ matchResults' = <<>>
    /\ errorMessage' = NoMessage
    /\ activeTab' = "matching"
    /\ UNCHANGED <<marathonPhotos, isModelsLoaded, isLoadingModels,
                   isAnalyzing, analysisProgress, loadPc, nextId, runVars, call, trackerVars>>

setActiveTab(tab) ==
    /\ activeTab # tab
    /\ activeTab' = tab
    /\ UNCHANGED <<marathonPhotos, referencePhoto, myDescriptor, matchResults,
                   isModelsLoaded, isLoadingModels, isAnalyzing,
                   analysisProgress, errorMessage, loadPc, nextId, runVars, call, trackerVars>>

-----------------------------------------------------------------------------
(* handleAnalyze.  Each action is one synchronous stretch of the handler:   *)
(* from the click, or from the settling of the awaited detection, to the    *)
(* next await or to the end of the finally block.                           *)

isAnalyzeDisabled ==
    \/ ~isModelsLoaded
    \/ isAnalyzing
    \/ referencePhoto = NoFile
    \/ Len(marathonPhotos) = 0

\* (faulty variant of handleAnalyze: the previous results are not cleared)
handleAnalyzeKeepsResults ==
    /\ activeTab = "matching"
    /\ ~isAnalyzeDisabled
    /\ isAnalyzing' = TRUE
    /\ errorMessage' = NoMessage
    /\ pc' = "awaitRef"
    /\ runRef' = referencePhoto
    /\ runPhotos' = marathonPhotos
    /\ descriptor' = Null
    /\ updatedPhotos' = <<>>
    /\ refDetect' = NotDetected
    /\ failedIdx' = {}
    /\ outcome' = "running"
    /\ UNCHANGED <<activeTab, marathonPhotos, referencePhoto, myDescriptor,
                   matchResults, isModelsLoaded, isLoadingModels,
                   analysisProgress, loadPc, nextId, removedIds, call, trackerVars>>

\* The click, up to "await extractReferenceFace(referencePhoto.file)"
handleAnalyze ==
    /\ activeTab = "matching"
    /\ ~isAnalyzeDisabled
    /\ IF referencePhoto = NoFile
       THEN /\ errorMessage' = MsgNeedReference
            /\ UNCHANGED <<isAnalyzing, matchResults, runVars>>
       ELSE IF Len(marathonPhotos) = 0
       THEN /\ errorMessage' = MsgNeedPhotos
            /\ UNCHANGED <<isAnalyzing, matchResults, runVars>>
       ELSE /\ isAnalyzing' = TRUE
            /\ errorMessage' = NoMessage
            /\ matchResults' = <<>>
            /\ pc' = "awaitRef"
            /\ runRef' = referencePhoto
            /\ runPhotos' = marathonPhotos
            /\ descriptor' = Null
            /\ updatedPhotos' = <<>>
            /\ refDetect' = NotDetected
            /\ failedIdx' = {}
            /\ outcome' = "running"
    /\ UNCHANGED <<activeTab, marathonPhotos, referencePhoto, myDescriptor,
                   isModelsLoaded, isLoadingModels, analysisProgress, loadPc,
                   nextId, removedIds, call, trackerVars>>

\* (faulty variant of Finally: isAnalyzing is not set back to false)
FinallyKeepsAnalyzing ==
    /\ isAnalyzing' = isAnalyzing
    /\ analysisProgress' = NoProgress
    /\ pc' = "idle"

\* finally { setIsAnalyzing(false); setAnalysisProgress({0, 0}) }
Finally ==
    /\ isAnalyzing' = FALSE
    /\ analysisProgress' = NoProgress
    /\ pc' = "idle"

\* (faulty variant of RefResolved: no return after the no-face message)
RefResolvedNoReturn(faces) ==
    /\ pc = "awaitRef"
    /\ refDetect' = [state |-> "resolved", faces |-> faces]
    /\ LET d == extractReferenceFace(faces) IN
       /\ errorMessage' = IF d = Null THEN MsgNoReferenceFace ELSE errorMessage
       /\ myDescriptor' = d
       /\ descriptor' = d
       /\ analysisProgress' = [current |-> 1, total |-> Len(runPhotos)]
       /\ pc' = "awaitDetect"
       /\ UNCHANGED <<isAnalyzing, outcome>>
    /\ UNCHANGED <<activeTab, marathonPhotos, referencePhoto, matchResults,
                   isModelsLoaded, isLoadingModels, loadPc, nextId,
                   runRef, runPhotos, updatedPhotos, failedIdx, removedIds, call, trackerVars>>

\* extractReferenceFace resolved, detection having found `faces`
RefResolved(faces) ==
    /\ pc = "awaitRef"
    /\ refDetect' = [state |-> "resolved", faces |-> faces]
    /\ LET d == extractReferenceFace(faces) IN
       IF d = Null
       THEN /\ errorMessage' = MsgNoReferenceFace
            /\ Finally
            /\ outcome' = "noReferenceFace"
            /\ UNCHANGED <<myDescriptor, descriptor>>
       ELSE /\ myDescriptor' = d
            /\ descriptor' = d
            /\ analysisProgress' = [current |-> 1, total |-> Len(runPhotos)]
            /\ pc' = "awaitDetect"
            /\ UNCHANGED <<errorMessage, isAnalyzing, outcome>>
    /\ UNCHANGED <<activeTab, marathonPhotos, referencePhoto, matchResults,
                   isModelsLoaded, isLoadingModels, loadPc, nextId,
                   runRef, runPhotos, updatedPhotos, failedIdx, removedIds, call, trackerVars>>

\* extractReferenceFace rejected (the image did not load, detection threw)
RefRejected ==
    /\ pc = "awaitRef"
    /\ refDetect' = [state |-> "rejected", faces |-> <<>>]
    /\ errorMessage' = MsgAnalysisFailed
    /\ Finally
    /\ outcome' = "error"
    /\ UNCHANGED <<activeTab, marathonPhotos, referencePhoto, myDescriptor,
                   matchResults, isModelsLoaded, isLoadingModels, loadPc, nextId,
                   runRef, runPhotos, descriptor, updatedPhotos, failedIdx, removedIds, call, trackerVars>>

\* (faulty variant of AfterLoop: no totalFaces check before the matching)
AfterLoopNoFaceCheck(updated) ==
    /\ marathonPhotos' = updated
    /\ LET matches == findMatchingPhotos(descriptor, updated, DefaultThreshold)
       IN  /\ matchResults' = matches
           /\ errorMessage' =
                IF Len(matches) = 0 THEN MsgNoMatch ELSE errorMessage
           /\ outcome' = IF Len(matches) = 0 THEN "noMatch" ELSE "matched"
    /\ Finally

\* After the loop: setMarathonPhotos, the face count, the matching, finally.
\* outcome records the branch taken: "noFaces" is the return before the call
\* of findMatchingPhotos, "noMatch" and "matched" follow the call.
AfterLoop(updated) ==
    /\ marathonPhotos' = updated
    /\ IF SumFaces(updated) = 0
       THEN /\ errorMessage' = MsgNoFacesInPhotos
            /\ outcome' = "noFaces"
            /\ UNCHANGED matchResults
       ELSE LET matches == findMatchingPhotos(descriptor, updated, DefaultThreshold)
            IN  /\ matchResults' = matches
                /\ errorMessage' =
                     IF Len(matches) = 0 THEN MsgNoMatch ELSE errorMessage
                /\ outcome' = IF Len(matches) = 0 THEN "noMatch" ELSE "matched"
    /\ Finally

\* One iteration's push, then the next iteration up to its await, or the end.
LoopPush(faces) ==
    LET i == Len(updatedPhotos) + 1
        updated == Append(updatedPhotos, [runPhotos[i] EXCEPT !.faces = faces])
    IN  /\ updatedPhotos' = updated
        /\ IF i < Len(runPhotos)
           THEN /\ analysisProgress' = [current |-> i + 1, total |-> Len(runPhotos)]
                /\ UNCHANGED <<marathonPhotos, matchResults, errorMessage,
                               isAnalyzing, pc, outcome>>
           ELSE AfterLoop(updated)

\* detectFacesInImage(photo.file) resolved with `faces`
DetectResolved(faces) ==
    /\ pc = "awaitDetect"
    /\ LoopPush(faces)
    /\ UNCHANGED <<activeTab, referencePhoto, myDescriptor, isModelsLoaded,
                   isLoadingModels, loadPc, nextId, runRef, runPhotos,
                   descriptor, refDetect, failedIdx, removedIds, call, trackerVars>>

\* (faulty variant of DetectRejected: no inner try/catch, the run aborts)
DetectRejectedAborts ==
    /\ pc = "awaitDetect"
    /\ failedIdx' = failedIdx \cup {Len(updatedPhotos) + 1}
    /\ errorMessage' = MsgAnalysisFailed
    /\ Finally
    /\ outcome' = "error"
    /\ UNCHANGED <<activeTab, marathonPhotos, referencePhoto, myDescriptor,
                   matchResults, isModelsLoaded, isLoadingModels, loadPc,
                   nextId, runRef, runPhotos, descriptor, updatedPhotos,
                   refDetect, removedIds, call, trackerVars>>

\* detectFacesInImage(photo.file) rejected: the photo gets faces: []
DetectRejected ==
    /\ pc = "awaitDetect"
    /\ failedIdx' = failedIdx \cup {Len(updatedPhotos) + 1}
    /\ LoopPush(<<>>)
    /\ UNCHANGED <<activeTab, referencePhoto, myDescriptor, isModelsLoaded,
                   isLoadingModels, loadPc, nextId, runRef, runPhotos,
                   descriptor, refDetect, removedIds, call, trackerVars>>

-----------------------------------------------------------------------------
(* The page as a whole *)

Init == UiInit /\ RunInit /\ TrackerInit /\ call = NoCall

Next ==
    \/ InitModelsStart
    \/ InitModelsLoaded
    \/ InitModelsFailed
    \/ \E n \in BatchSizes : PhotosAddRefused(n)
    \/ \E n \in BatchSizes : handleMarathonPhotosAdd(n)
    \/ \E id \in 1..MaxUploads : handleMarathonPhotoRemove(id)
    \/ \E file \in RefFiles \cup {NoFile} : handleReferencePhotoChange(file)
    \/ \E file \in RefFiles : handleCaptureFace(file)
    \/ \E tab \in {"matching", "live"} : setActiveTab(tab)
    \/ handleAnalyze
    \/ \E faces \in RefDetectOutcomes : RefResolved(faces)
    \/ RefRejected
    \/ \E faces \in PhotoDetectOutcomes : DetectResolved(faces)
    \/ DetectRejected

Spec == Init /\ [][Next]_vars

\* The settling of the promise handleAnalyze awaits: extractReferenceFace and
\* detectFacesInImage resolve (img.onload) or reject (img.onerror, a throw).
Settle ==
    \/ \E faces \in RefDetectOutcomes : RefResolved(faces)
    \/ RefRejected
    \/ \E faces \in PhotoDetectOutcomes : DetectResolved(faces)
    \/ DetectRejected

\* handleAnalyze is suspended at an await
Awaiting == pc # "idle"

\* Weak fairness of Settle, WF_vars(Settle), written out by its definition
\* []<>(~ENABLED <<Settle>>_vars) \/ []<><<Settle>>_vars: a promise that is
\* awaited can always reject, so ENABLED <<Settle>>_vars is Awaiting.
SettleFairness == []<>(~Awaiting) \/ []<><<Settle>>_vars

\* The page, every awaited face extraction eventually settling
LiveSpec == Init /\ [][Next]_vars /\ SettleFairness

-----------------------------------------------------------------------------
(* LiveFaceTracker (src/unnamed/part_000), from the moment the live tab     *)
(* mounts it.  A detection loop is a chain of detectFaces calls; it is      *)
(* either suspended at detectAllFaces (detecting), waiting for its 100 ms   *)
(* timeout (timers) or waiting for its animation frame (frames).  Every     *)
(* 'loadeddata' listener is created by a render in which isStreaming and    *)
(* isModelsLoaded are true, so the detectFaces it calls, and passes on to   *)
(* requestAnimationFrame, sees these two values as true for ever.           *)

\* Start/stop cycles and animation frame ids of one behaviour
MaxStarts == 2
MaxFrames == 4

\* cancelAnimationFrame(id): a pending request with that id is dropped
cancelAnimationFrame(pending, id) == pending \ {id}

\* onClick={startWebcam}, up to await getUserMedia.  The button is rendered
\* while !isStreaming and enabled once the models are loaded.
startWebcam ==
    /\ activeTab = "live"
    /\ isModelsLoaded
    /\ ~isStreaming
    /\ startPc = "idle"
    /\ listeners < MaxStarts
    /\ error' = "null"
    /\ startPc' = "awaitStream"
    /\ UNCHANGED <<uiVars, runVars, call, isStreaming, streamRef,
                   animationFrameRef, detectionInfo, listeners, loadPending,
                   detecting, timers, frames, nextFrame>>

\* getUserMedia resolved: srcObject, streamRef, setIsStreaming(true).  The
\* render that follows runs the effect of lines 179-191: the cleanup of the
\* previous run cancels the frame animationFrameRef names, then a new
\* 'loadeddata' listener is added (none is ever removed).
StartResolved ==
    /\ startPc = "awaitStream"
    /\ startPc' = "idle"
    /\ streamRef' = "stream"
    /\ isStreaming' = TRUE
    /\ loadPending' = TRUE
    /\ frames' = IF animationFrameRef # 0
                 THEN cancelAnimationFrame(frames, animationFrameRef)
                 ELSE frames
    /\ listeners' = listeners + 1
    /\ UNCHANGED <<uiVars, runVars, call, animationFrameRef, detectionInfo,
                   error, detecting, timers, nextFrame>>

\* getUserMedia rejected: the catch sets the error
StartRejected ==
    /\ startPc = "awaitStream"
    /\ startPc' = "idle"
    /\ error' = "webcamFailed"
    /\ UNCHANGED <<uiVars, runVars, call, isStreaming, streamRef,
                   animationFrameRef, detectionInfo, listeners, loadPending,
                   detecting, timers, frames, nextFrame>>

\* onClick={stopWebcam}: the tracks are stopped (a stream that has not yet
\* delivered a frame never fires 'loadeddata'), the frame animationFrameRef
\* names is cancelled, the state is reset.  The effect cleanup that follows
\* the render finds animationFrameRef.current null.
stopWebcam ==
    /\ isStreaming
    /\ streamRef' = "null"
    /\ frames' = IF animationFrameRef # 0
                 THEN cancelAnimationFrame(frames, animationFrameRef)
                 ELSE frames
    /\ animationFrameRef' = 0
    /\ isStreaming' = FALSE
    /\ detectionInfo' = "null"
    /\ loadPending' = FALSE
    /\ UNCHANGED <<uiVars, runVars, call, error, startPc, listeners,
                   detecting, timers, nextFrame>>

\* The video fires 'loadeddata': every registered listener calls
\* detectFaces().  At this event readyState is at least HAVE_CURRENT_DATA,
\* not necessarily 4; all listeners run in the same task and see the same
\* value.
LoadedData(ready) ==
    /\ loadPending
    /\ loadPending' = FALSE
    /\ IF ready
       THEN /\ detecting' = detecting + listeners
            /\ UNCHANGED <<frames, animationFrameRef, nextFrame>>
       ELSE /\ nextFrame + listeners - 1 <= MaxFrames
            /\ frames' = frames \cup (nextFrame .. (nextFrame + listeners - 1))
            /\ animationFrameRef' = nextFrame + listeners - 1
            /\ nextFrame' = nextFrame + listeners
            /\ UNCHANGED detecting
    /\ UNCHANGED <<uiVars, runVars, call, isStreaming, streamRef,
                   detectionInfo, error, startPc, listeners, timers>>

\* detectAllFaces resolved: setDetectionInfo, then setTimeout(..., 100)
DetectResolvedLive ==
    /\ detecting > 0
    /\ detecting' = detecting - 1
    /\ detectionInfo' = "info"
    /\ timers' = timers + 1
    /\ UNCHANGED <<uiVars, runVars, call, isStreaming, streamRef,
                   animationFrameRef, error, startPc, listeners, loadPending,
                   frames, nextFrame>>

\* detectAllFaces rejected: the catch logs, then setTimeout(..., 100)
DetectRejectedLive ==
    /\ detecting > 0
    /\ detecting' = detecting - 1
    /\ timers' = timers + 1
    /\ UNCHANGED <<uiVars, runVars, call, isStreaming, streamRef,
                   animationFrameRef, detectionInfo, error, startPc,
                   listeners, loadPending, frames, nextFrame>>

\* A 100 ms timeout fires:
\* animationFrameRef.current = requestAnimationFrame(detectFaces)
TimerFires ==
    /\ timers > 0
    /\ nextFrame <= MaxFrames
    /\ timers' = timers - 1
    /\ frames' = frames \cup {nextFrame}
    /\ animationFrameRef' = nextFrame
    /\ nextFrame' = nextFrame + 1
    /\ UNCHANGED <<uiVars, runVars, call, isStreaming, streamRef,
                   detectionInfo, error, startPc, listeners, loadPending,
                   detecting>>

\* The animation frame `id` fires: one more detectFaces call, up to its first
\* suspension.  The guard of line 79 passes (the refs are set while the
\* component is mounted, the closure's isModelsLoaded and isStreaming are
\* true); with video.readyState = 4 the call goes on to await detectAllFaces,
\* otherwise it requests another animation frame.
FrameFires(id, ready) ==
    /\ id \in frames
    /\ IF ready
       THEN /\ frames' = frames \ {id}
            /\ detecting' = detecting + 1
            /\ UNCHANGED <<animationFrameRef, nextFrame>>
       ELSE /\ nextFrame <= MaxFrames
            /\ frames' = (frames \ {id}) \cup {nextFrame}
            /\ animationFrameRef' = nextFrame
            /\ nextFrame' = nextFrame + 1
            /\ UNCHANGED detecting
    /\ UNCHANGED <<uiVars, runVars, call, isStreaming, streamRef,
                   detectionInfo, error, startPc, listeners, loadPending,
                   timers>>

TrackerNext ==
    \/ InitModelsStart
    \/ InitModelsLoaded
    \/ InitModelsFailed
    \/ (activeTab = "matching" /\ setActiveTab("live"))
    \/ startWebcam
    \/ StartResolved
    \/ StartRejected
    \/ stopWebcam
    \/ \E ready \in BOOLEAN : LoadedData(ready)
    \/ DetectResolvedLive
    \/ DetectRejectedLive
    \/ TimerFires
    \/ \E id \in 1..MaxFrames, ready \in BOOLEAN : FrameFires(id, ready)

TrackerSpec == Init /\ [][TrackerNext]_vars

\* The detection loops that are alive
ActiveLoops == detecting + timers + Cardinality(frames)

-----------------------------------------------------------------------------
(* Properties of findMatchingPhotos (FnSpec) *)

FindDone == call.op = "findMatchingPhotos" /\ call.done
FindRef == call.args.myDescriptor
FindPhotos == call.args.photos
FindThreshold == call.args.threshold

\* The ids of the photos in a result list
ResultIds(results) == {results[k].photo.id : k \in DOMAIN results}

\* Some face of the photo is at distance <= t from the reference
SomeFaceWithin(ref, photo, t) ==
    \E i \in DOMAIN photo.faces : calculateDistance(ref, photo.faces[i].descriptor) <= t

\* d is the least distance from the reference to a face of the photo
IsRepresentative(ref, photo, d) ==
    /\ \E i \in DOMAIN photo.faces : calculateDistance(ref, photo.faces[i].descriptor) = d
    /\ \A i \in DOMAIN photo.faces : calculateDistance(ref, photo.faces[i].descriptor) >= d

\* Every distance between a reference input and a face input
AllDistances ==
    {calculateDistance(r, f) : r \in RefDescriptors, f \in FaceDescriptors}

\* C1: a photo with at least one face is in the output exactly when its
\* representative distance is <= threshold (a distance equal to the threshold
\* is admitted, a greater one never is).
C1_AdmittedIffWithinThreshold ==
    FindDone =>
        \A i \in DOMAIN FindPhotos :
            Len(FindPhotos[i].faces) > 0 =>
                \A d \in AllDistances :
                    IsRepresentative(FindRef, FindPhotos[i], d) =>
                        ((FindPhotos[i].id \in ResultIds(call.result))
                            <=> (d <= FindThreshold))

\* C1 witness: one photo exactly at the threshold (0.6) is admitted while
\* another, beyond it (0.8), is left out.
C1_Witness ==
    /\ FindDone
    /\ FindThreshold = DefaultThreshold
    /\ \E i, j \in DOMAIN FindPhotos :
        /\ IsRepresentative(FindRef, FindPhotos[i], DefaultThreshold)
        /\ FindPhotos[i].id \in ResultIds(call.result)
        /\ IsRepresentative(FindRef, FindPhotos[j], DefaultThreshold + 4)
        /\ FindPhotos[j].id \notin ResultIds(call.result)

\* C2: every result carries the minimum distance over the faces of its photo,
\* a photo with any face within the threshold is admitted, and no photo is
\* reported twice.
C2_DistanceIsMinimumOverFaces ==
    FindDone =>
        /\ \A k \in DOMAIN call.result :
            /\ \E i \in DOMAIN FindPhotos : call.result[k].photo = FindPhotos[i]
            /\ IsRepresentative(FindRef, call.result[k].photo, call.result[k].distance)
        /\ \A i \in DOMAIN FindPhotos :
            SomeFaceWithin(FindRef, FindPhotos[i], FindThreshold)
                => FindPhotos[i].id \in ResultIds(call.result)
        /\ \A k1, k2 \in DOMAIN call.result :
            call.result[k1].photo.id = call.result[k2].photo.id => k1 = k2

\* C2 witness: a two-face photo whose first face is beyond the threshold and
\* whose second face is within it is admitted with the second face's distance.
C2_Witness ==
    /\ FindDone
    /\ \E k \in DOMAIN call.result :
        LET fs == call.result[k].photo.faces IN
        /\ Len(fs) = 2
        /\ calculateDistance(FindRef, fs[1].descriptor) > FindThreshold
        /\ calculateDistance(FindRef, fs[2].descriptor) <= FindThreshold
        /\ call.result[k].distance = calculateDistance(FindRef, fs[2].descriptor)

\* C3: a photo without faces is never in the output, whatever the threshold.
C3_NoFacesNeverReported ==
    FindDone =>
        \A i \in DOMAIN FindPhotos :
            Len(FindPhotos[i].faces) = 0
                => FindPhotos[i].id \notin ResultIds(call.result)

\* C3 witness: with a threshold above 1.0 every photo that has a face is
\* reported and the photo without faces is not.
C3_Witness ==
    /\ FindDone
    /\ FindThreshold > One
    /\ Len(FindPhotos) = 3
    /\ Len(FindPhotos[2].faces) = 0
    /\ ResultIds(call.result) = {1, 3}

\* C4: the output is in non-increasing order of score, and results of equal
\* score keep the order their photos have in the input (in FnSpec a photo's
\* id is its position in the input).
C4_SortedByScoreStable ==
    FindDone =>
        \A k1, k2 \in DOMAIN call.result :
            k1 < k2 =>
                /\ call.result[k1].score >= call.result[k2].score
                /\ call.result[k1].score = call.result[k2].score
                    => call.result[k1].photo.id < call.result[k2].photo.id

\* C4 witness: the sort moved the second photo to the front and left two
\* photos of equal score in input order behind it.
C4_Witness ==
    /\ FindDone
    /\ Len(call.result) = 3
    /\ call.result[1].photo.id = 2
    /\ call.result[2].photo.id = 1
    /\ call.result[3].photo.id = 3
    /\ call.result[2].score = call.result[3].score
    /\ call.result[1].score > call.result[2].score

\* C5: every result has distance >= 0, score = max(0, 1 - distance) and a
\* score between 0 and 1, also for thresholds above 1.
C5_ScoreFromDistance ==
    FindDone =>
        \A k \in DOMAIN call.result :
            LET r == call.result[k] IN
            /\ r.distance >= 0
            /\ r.score = (IF One - r.distance > 0 THEN One - r.distance ELSE 0)
            /\ 0 <= r.score
            /\ r.score <= One

\* C5 witness: a threshold above 1 admits a photo at a distance above 1, whose
\* score is clamped to 0.
C5_Witness ==
    /\ FindDone
    /\ FindThreshold > One
    /\ \E k \in DOMAIN call.result :
        call.result[k].distance > One /\ call.result[k].score = 0

\* C6: the photos returned for a threshold are among those returned for any
\* greater threshold (and contain those returned for any smaller one).
C6_ThresholdMonotone ==
    FindDone =>
        \A t \in AllDistances \cup ThresholdInputs :
            /\ t > FindThreshold =>
                ResultIds(call.result)
                    \subseteq ResultIds(findMatchingPhotos(FindRef, FindPhotos, t))
            /\ t < FindThreshold =>
                ResultIds(findMatchingPhotos(FindRef, FindPhotos, t))
                    \subseteq ResultIds(call.result)

\* C6 witness: the call returned some but not all of the photos that a
\* greater threshold returns.
C6_Witness ==
    /\ FindDone
    /\ FindThreshold = DefaultThreshold
    /\ call.result # <<>>
    /\ ResultIds(call.result) # ResultIds(findMatchingPhotos(FindRef, FindPhotos, One + 4))
    /\ ResultIds(call.result) # ResultIds(findMatchingPhotos(FindRef, FindPhotos, 0))

\* C24: the results of findMatchingPhotos are in non-decreasing order of
\* distance, for every reference, photo list and threshold (thresholds above
\* 1.0 included): the first result has the least distance of all.
C24_MostSimilarFirst ==
    FindDone =>
        \A k, l \in DOMAIN call.result :
            k < l => call.result[k].distance <= call.result[l].distance

\* C25: for every result the gallery shows, the face shown as the matched
\* face is a face of that photo at the least distance from the reference: the
\* face that produced the result's distance.
C25_MatchedFaceIsClosest ==
    (call.op = "ResultGallery" /\ call.done) =>
        \A k \in DOMAIN call.args.results :
            calculateDistance(call.args.myDescriptor, call.result[k].descriptor)
                = call.args.results[k].distance

-----------------------------------------------------------------------------
(* Properties of extractReferenceFace (FnSpec) *)

ExtractDone == call.op = "extractReferenceFace" /\ call.done
ExtractFaces == call.args.faces

\* C7: for a non-empty list of faces the result is the descriptor of the
\* first face, in detection order, among those of the largest box area; with
\* one face it is that face's descriptor.
C7_LargestFaceFirstWins ==
    (ExtractDone /\ Len(ExtractFaces) > 0) =>
        /\ \E i \in DOMAIN ExtractFaces :
            /\ call.result = ExtractFaces[i].descriptor
            /\ \A j \in DOMAIN ExtractFaces :
                /\ Area(ExtractFaces[j]) <= Area(ExtractFaces[i])
                /\ j < i => Area(ExtractFaces[j]) < Area(ExtractFaces[i])
        /\ Len(ExtractFaces) = 1 => call.result = ExtractFaces[1].descriptor

\* C7 witness: a small face comes first and two faces of the same, largest
\* area and different descriptors follow; the earlier of the two is selected.
C7_Witness ==
    /\ ExtractDone
    /\ Len(ExtractFaces) = 3
    /\ Area(ExtractFaces[1]) < Area(ExtractFaces[2])
    /\ Area(ExtractFaces[2]) = Area(ExtractFaces[3])
    /\ ExtractFaces[2].descriptor # ExtractFaces[3].descriptor
    /\ ExtractFaces[2].descriptor # ExtractFaces[1].descriptor
    /\ call.result = ExtractFaces[2].descriptor

-----------------------------------------------------------------------------
(* The arguments after a call (FnSpec) *)

\* C15: after findMatchingPhotos and after the reference selection of
\* extractReferenceFace the arguments are as they were passed: the same
\* photos in the same order, each with the same faces in the same order, and
\* the same descriptor and box in every face.
C15_InputsNotMutated ==
    (call.op \in {"findMatchingPhotos", "extractReferenceFace"} /\ call.done) =>
        call.after = call.args

-----------------------------------------------------------------------------
(* Properties of cropFaceFromImage (FnSpec) *)

CropDone ==
    call.op = "cropFaceFromImage" /\ call.done /\ call.result.state = "resolved"
CropImg == call.args.img
CropBox == call.args.box
CropPad == call.args.padding
CropPaddingX == (CropBox.width * CropPad) \div PadDen
CropPaddingY == (CropBox.height * CropPad) \div PadDen
Region == call.result.region

\* The box lies inside the image (it may touch the edges).
BoxInsideImage ==
    /\ CropBox.x >= 0
    /\ CropBox.y >= 0
    /\ CropBox.width > 0
    /\ CropBox.height > 0
    /\ CropBox.x + CropBox.width <= CropImg.width
    /\ CropBox.y + CropBox.height <= CropImg.height

\* C12: for a box inside the image and a padding >= 0, an image that loads is
\* always cropped (the call resolves, whatever the clamping), and the region
\* has cropX >= 0, cropY >= 0, cropWidth > 0, cropHeight > 0,
\* cropX + cropWidth <= image width and cropY + cropHeight <= image height.
C12_CropWithinImage ==
    (call.op = "cropFaceFromImage" /\ call.done /\ CropImg.loads
        /\ BoxInsideImage /\ CropPad >= 0) =>
        /\ call.result.state = "resolved"
        /\ Region.cropX >= 0
        /\ Region.cropY >= 0
        /\ Region.cropWidth > 0
        /\ Region.cropHeight > 0
        /\ Region.cropX + Region.cropWidth <= CropImg.width
        /\ Region.cropY + Region.cropHeight <= CropImg.height

\* C12 witness: a box inside the image whose padded region is cut at the left
\* and the top (at 0) and at the right and the bottom (at the image's size).
C12_Witness ==
    /\ CropDone
    /\ BoxInsideImage
    /\ CropBox.x - CropPaddingX < 0
    /\ CropBox.y - CropPaddingY < 0
    /\ CropBox.x + CropBox.width + CropPaddingX > CropImg.width
    /\ CropBox.y + CropBox.height + CropPaddingY > CropImg.height
    /\ Region = [cropX |-> 0, cropY |-> 0,
                 cropWidth |-> CropImg.width, cropHeight |-> CropImg.height]

\* C13: the region is the intersection of the image with the box grown by
\* paddingX to the left and to the right and by paddingY above and below:
\* also when the left or top edge is clamped to 0, the right edge is at most
\* box.x + box.width + paddingX and the bottom edge at most
\* box.y + box.height + paddingY.
C13_SymmetricPaddingIntersection ==
    CropDone =>
        /\ Region.cropX = Max(0, CropBox.x - CropPaddingX)
        /\ Region.cropY = Max(0, CropBox.y - CropPaddingY)
        /\ Region.cropX + Region.cropWidth =
                Min(CropImg.width, CropBox.x + CropBox.width + CropPaddingX)
        /\ Region.cropY + Region.cropHeight =
                Min(CropImg.height, CropBox.y + CropBox.height + CropPaddingY)

\* C14: with padding 0 the region is the box itself (cropX = box.x,
\* cropY = box.y, cropWidth = box.width, cropHeight = box.height), cut at the
\* image's right and bottom edges where the box reaches past them.
C14_ZeroPaddingRoundTrip ==
    (CropDone /\ CropPad = 0) =>
        /\ Region.cropX = CropBox.x
        /\ Region.cropY = CropBox.y
        /\ Region.cropX + Region.cropWidth =
                Min(CropImg.width, CropBox.x + CropBox.width)
        /\ Region.cropY + Region.cropHeight =
                Min(CropImg.height, CropBox.y + CropBox.height)
        /\ BoxInsideImage =>
                /\ Region.cropWidth = CropBox.width
                /\ Region.cropHeight = CropBox.height

\* C14 witness: padding 0, a box that is inside the image from left to right
\* and reaches past its bottom edge: the width comes back as it is, the
\* height is cut.
C14_Witness ==
    /\ CropDone
    /\ CropPad = 0
    /\ CropBox.x > 0
    /\ CropBox.x + CropBox.width < CropImg.width
    /\ CropBox.y + CropBox.height > CropImg.height
    /\ Region.cropX = CropBox.x
    /\ Region.cropWidth = CropBox.width
    /\ Region.cropY = CropBox.y
    /\ Region.cropHeight = CropImg.height - CropBox.y
    /\ Region.cropHeight < CropBox.height

-----------------------------------------------------------------------------
(* Properties of calculateDistance (FnSpec) *)

DistanceDone == call.op = "calculateDistance" /\ call.done
SameElements(a, b) ==
    Len(a) = Len(b) /\ \A i \in DOMAIN a : a[i] = b[i]

\* C16: calculateDistance(a, b) is calculateDistance(b, a).
C16_DistanceSymmetric ==
    DistanceDone =>
        call.result = calculateDistance(call.args.desc2, call.args.desc1)

\* C16 witness: two different descriptors, 13 units (0.65) apart.
C16_Witness ==
    /\ DistanceDone
    /\ call.args.desc1 = <<5, 0>>
    /\ call.args.desc2 = <<0, 12>>
    /\ call.result = 13

\* C17: calculateDistance(a, a) is 0, and calculateDistance(a, b) is 0 only
\* when a and b are equal element by element.
C17_DistanceZeroIffEqual ==
    DistanceDone =>
        /\ SameElements(call.args.desc1, call.args.desc2) => call.result = 0
        /\ call.result = 0 => SameElements(call.args.desc1, call.args.desc2)
        /\ call.result >= 0

\* C17 witness: a descriptor other than the origin, compared with itself.
C17_Witness ==
    /\ DistanceDone
    /\ call.args.desc1 = <<0, 12>>
    /\ call.args.desc2 = <<0, 12>>
    /\ call.result = 0

-----------------------------------------------------------------------------
(* Properties of the dominant expression (FnSpec) *)

KeyIndex(k) == CHOOSE i \in DOMAIN ExpressionKeys : ExpressionKeys[i] = k
CallExpressions == call.args.expressions

\* C18: getDominantExpression returns an expression of the highest
\* probability, and of those the first in the key order happy, sad, angry,
\* surprised, disgusted, fearful, neutral.
C18_DominantIsFirstMaximum ==
    (call.op = "getDominantExpression" /\ call.done) =>
        /\ call.result \in {ExpressionKeys[i] : i \in DOMAIN ExpressionKeys}
        /\ \A i \in DOMAIN ExpressionKeys :
            /\ CallExpressions[ExpressionKeys[i]] <= CallExpressions[call.result]
            /\ i < KeyIndex(call.result) =>
                CallExpressions[ExpressionKeys[i]] < CallExpressions[call.result]

\* C18 witness: sad and surprised share the highest probability and happy has
\* a lower one; sad, the earlier key of the two, is returned.
C18_Witness ==
    /\ call.op = "getDominantExpression"
    /\ call.done
    /\ CallExpressions["sad"] = CallExpressions["surprised"]
    /\ 0 < CallExpressions["happy"]
    /\ CallExpressions["happy"] < CallExpressions["sad"]
    /\ call.result = "sad"

\* C20: the tracker's fold selects the expression getDominantExpression
\* selects, for every distribution, tied maxima included.
C20_FoldAgreesWithGetDominantExpression ==
    (call.op = "dominantExpr" /\ call.done) =>
        call.result = getDominantExpression(CallExpressions)

-----------------------------------------------------------------------------
(* Properties of the analysis run (Spec) *)

\* C8: when detection finds no face in the reference image, reference
\* selection yields null and the run ends there: the no-face message is set,
\* matchResults is empty, no photo has been or will be processed by this run,
\* and isAnalyzing is false again.
C8_NoReferenceFaceEndsRun ==
    /\ [](outcome = "noReferenceFace" =>
            /\ refDetect.state = "resolved"
            /\ refDetect.faces = <<>>
            /\ pc = "idle"
            /\ ~isAnalyzing
            /\ matchResults = <<>>
            /\ updatedPhotos = <<>>)
    /\ [][(pc = "awaitRef" /\ refDetect'.state = "resolved" /\ refDetect'.faces = <<>>) =>
            /\ extractReferenceFace(refDetect'.faces) = Null
            /\ outcome' = "noReferenceFace"
            /\ errorMessage' = MsgNoReferenceFace
            /\ matchResults' = <<>>
            /\ marathonPhotos' = marathonPhotos
            /\ myDescriptor' = myDescriptor
            /\ isAnalyzing' = FALSE
            /\ analysisProgress' = NoProgress
            /\ pc' = "idle"]_vars

\* C8 witness: a run has ended for want of a reference face, the message is
\* up, and the analyze button is enabled again.
C8_Witness ==
    /\ outcome = "noReferenceFace"
    /\ errorMessage = MsgNoReferenceFace
    /\ matchResults = <<>>
    /\ ~isAnalyzeDisabled

\* C9: a photo whose extraction rejects is recorded with zero faces, the
\* photos are processed in order whatever fails, and a run in which an
\* extraction rejected never ends with the generic analysis error: it goes on
\* past the loop, to the matching whenever some photo has a face.
C9_PerPhotoFailureIsolated ==
    /\ failedIdx \subseteq DOMAIN updatedPhotos
    /\ Len(updatedPhotos) <= Len(runPhotos)
    /\ \A j \in DOMAIN updatedPhotos :
        /\ updatedPhotos[j].id = runPhotos[j].id
        /\ j \in failedIdx => updatedPhotos[j].faces = <<>>
    /\ failedIdx # {} =>
        /\ outcome # "error"
        /\ errorMessage # MsgAnalysisFailed
        /\ pc = "idle" =>
            /\ Len(updatedPhotos) = Len(runPhotos)
            /\ outcome \in {"noFaces", "noMatch", "matched"}
            /\ SumFaces(updatedPhotos) > 0 => outcome \in {"noMatch", "matched"}

\* C9 witness: the first photo's extraction rejected, the second photo was
\* still processed, and the run ended with a match.
C9_Witness ==
    /\ failedIdx = {1}
    /\ pc = "idle"
    /\ Len(updatedPhotos) = 2
    /\ updatedPhotos[1].faces = <<>>
    /\ outcome = "matched"
    /\ Len(matchResults) = 1

\* C10: matchResults is empty or the complete ranked output of
\* findMatchingPhotos over all the photos of a completed run; it is empty
\* while a run is in progress and after a run that ended early.
C10_RunAtomic ==
    /\ isAnalyzing => matchResults = <<>>
    /\ pc # "idle" => matchResults = <<>>
    /\ outcome \in {"noReferenceFace", "noFaces", "error", "noMatch"} => matchResults = <<>>
    /\ matchResults # <<>> =>
        /\ outcome = "matched"
        /\ Len(updatedPhotos) = Len(runPhotos)
        /\ matchResults = findMatchingPhotos(descriptor, updatedPhotos, DefaultThreshold)

\* C10 witness: a completed run over two photos exposes both, ranked, the
\* second photo first.
C10_Witness ==
    /\ ~isAnalyzing
    /\ Len(matchResults) = 2
    /\ matchResults[1].photo.id = 2
    /\ matchResults[1].score > matchResults[2].score

\* C11: a run whose photos hold no face at all ends with the "no faces in the
\* photos" message, on the branch that returns before findMatchingPhotos, and
\* leaves matchResults as it was; the "no match" message is set exactly when
\* at least one face was detected and findMatchingPhotos returned the empty
\* list.  The two messages are never up for the same run.
C11_NoFacesVersusNoMatch ==
    /\ [](/\ outcome = "noFaces" =>
                /\ Len(updatedPhotos) = Len(runPhotos)
                /\ SumFaces(updatedPhotos) = 0
                /\ matchResults = <<>>
          /\ outcome \in {"noMatch", "matched"} =>
                /\ Len(updatedPhotos) = Len(runPhotos)
                /\ SumFaces(updatedPhotos) > 0
          /\ outcome = "noMatch" =>
                findMatchingPhotos(descriptor, updatedPhotos, DefaultThreshold) = <<>>
          /\ errorMessage = MsgNoFacesInPhotos => outcome = "noFaces"
          /\ errorMessage = MsgNoMatch => outcome = "noMatch")
    /\ [][(pc = "awaitDetect" /\ pc' = "idle") =>
            /\ SumFaces(updatedPhotos') = 0 =>
                /\ errorMessage' = MsgNoFacesInPhotos
                /\ outcome' = "noFaces"
                /\ matchResults' = matchResults
            /\ errorMessage' = MsgNoMatch <=>
                /\ SumFaces(updatedPhotos') > 0
                /\ findMatchingPhotos(descriptor, updatedPhotos', DefaultThreshold) = <<>>
            /\ errorMessage' \in {MsgNoFacesInPhotos, MsgNoMatch} <=>
                outcome' \in {"noFaces", "noMatch"}]_vars

\* C11 witness: a run over two photos, neither with a face, has ended with the
\* "no faces" message and no results.
C11_Witness ==
    /\ pc = "idle"
    /\ outcome = "noFaces"
    /\ Len(updatedPhotos) = 2
    /\ failedIdx = {}
    /\ errorMessage = MsgNoFacesInPhotos
    /\ matchResults = <<>>

\* C19: the collection never holds more than maxPhotos photos, whatever is
\* added, removed or analysed; a selection that would bring it above the limit
\* is refused as a whole and changes neither the collection nor the results,
\* and a selection that is added fits within the limit and is added whole.
C19_UploadLimit ==
    /\ [](Len(marathonPhotos) <= maxPhotos)
    /\ [][\A n \in BatchSizes :
            /\ PhotosAddRefused(n) =>
                /\ marathonPhotos' = marathonPhotos
                /\ matchResults' = matchResults
                /\ errorMessage' = errorMessage
            /\ handleMarathonPhotosAdd(n) =>
                /\ Len(marathonPhotos) + n <= maxPhotos
                /\ Len(marathonPhotos') = Len(marathonPhotos) + n
                /\ SubSeq(marathonPhotos', 1, Len(marathonPhotos)) = marathonPhotos]_vars
    /\ [][Len(marathonPhotos') > Len(marathonPhotos) =>
            \/ pc = "awaitDetect" /\ pc' = "idle"
            \/ \E n \in BatchSizes :
                /\ Len(marathonPhotos) + n <= maxPhotos
                /\ Len(marathonPhotos') = Len(marathonPhotos) + n]_vars

\* C19 witness: the collection is full, the results of a run over it are
\* shown, and a fresh file could still be selected: any selection is refused.
C19_Witness ==
    /\ activeTab = "matching"
    /\ Len(marathonPhotos) = maxPhotos
    /\ nextId <= MaxUploads
    /\ pc = "idle"
    /\ matchResults # <<>>
    /\ \A n \in BatchSizes \ {0} : Len(marathonPhotos) + n > maxPhotos

\* C21: whenever matchResults is non-empty it was computed from the reference
\* photo that is selected now, i.e. the run that produced it was started with
\* the current reference photo.
C21_ResultsNeverStale ==
    matchResults # <<>> => runRef = referencePhoto

\* C22: the ids in marathonPhotos are the ids the user has added (1 up to
\* nextId - 1) less the ids the user has removed, and no result shows a
\* removed photo.
C22_CollectionIntegrity ==
    /\ PhotoIds(marathonPhotos) = (1..(nextId - 1)) \ removedIds
    /\ ResultIds(matchResults) \cap removedIds = {}

\* C23: a run that is started finishes, every awaited extraction settling:
\* isAnalyzing becomes false again with analysisProgress back at 0/0; the
\* progress never shows current above total, and while a run goes on current
\* only increases.
C23_RunFinishes ==
    /\ isAnalyzing ~> (~isAnalyzing /\ analysisProgress = NoProgress /\ pc = "idle")
    /\ [](analysisProgress.current <= analysisProgress.total)
    /\ [](pc = "idle" => (~isAnalyzing /\ analysisProgress = NoProgress))
    /\ [][(isAnalyzing /\ isAnalyzing') =>
            /\ analysisProgress'.current >= analysisProgress.current
            /\ analysisProgress'.total \in {analysisProgress.total, Len(runPhotos)}]_vars

\* C23 witness: a run over two photos has finished after showing progress
\* 2 of 2, one extraction having rejected.
C23_Witness ==
    /\ pc = "idle"
    /\ ~isAnalyzing
    /\ analysisProgress = NoProgress
    /\ Len(updatedPhotos) = 2
    /\ failedIdx = {2}
    /\ outcome = "matched"

-----------------------------------------------------------------------------
(* Properties of LiveFaceTracker (TrackerSpec) *)

\* C26: stopping the tracker stops detection.  While the webcam is not
\* streaming no animation frame is requested and no detectFaces call reaches
\* detectAllFaces, so a loop that was waiting for its 100 ms timeout when
\* stopWebcam ran goes no further; and over any start/stop cycles there is
\* never more than one detection loop alive.
C26_StopStopsDetection ==
    /\ [][~isStreaming => (frames' \subseteq frames /\ detecting' <= detecting)]_vars
    /\ [](ActiveLoops <= 1)

-----------------------------------------------------------------------------
(* Properties of downloadCroppedFaces (FnSpec) *)

\* crop region c contains region r
Covers(c, r) ==
    /\ c.cropX <= r.x
    /\ c.cropY <= r.y
    /\ c.cropX + c.cropWidth >= r.x + r.width
    /\ c.cropY + c.cropHeight >= r.y + r.height

\* C27: the box passed to cropFaceFromImage is in the pixels of the image
\* that is cropped: for every photo, also one whose longer side is above 800,
\* the crop region of each face covers the region the face occupies in the
\* uploaded image.
C27_CropCoversFace ==
    (call.op = "downloadCroppedFaces" /\ call.done
        /\ call.result.download.state = "downloaded") =>
        \A k \in DOMAIN call.args.scene :
            Covers(call.result.download.crops[k], call.args.scene[k])

====
